---- MODULE Spec2Model ----
(***************************************************************************)
(* Credential manager of the container executor (package containerstore):  *)
(* CreateCredDir, RemoveCredDir and the ifrit Runner that issues, rotates  *)
(* and finally invalidates the credentials of one container.               *)
(*                                                                         *)
(* Time is counted in quarters of an hour, so that 30 minutes and 4 hours  *)
(* are whole numbers of units.                                             *)
(***************************************************************************)
EXTENDS Integers, Sequences, FiniteSets, TLC

\* ------------------------------------------------------------- bounds
MaxHandlers == 3          \* registered handlers: 0..MaxHandlers
MaxFires == 2             \* serviced timer fires per run
MaxTime == 15             \* the clock stops advancing here
MaxPeriod == 40           \* validity periods given to the scheduler and the forge alone

\* -------------------------------------------------- program constants
HalfHour == 2             \* 30*time.Minute, in quarters of an hour
FourHours == 16           \* 4*time.Hour, in quarters of an hour

\* Validity periods a manager may be constructed with: 2h, 4h, 4h15m.
ValidityPeriods == {8, 16, 17}

VARIABLES
    handlers,        \* c.handlers: the number of registered handlers (1..handlers)
    validityPeriod,  \* c.validityPeriod
    now,             \* c.clock.Now()
    phase,           \* the caller's position in the container's life
    pc,              \* the Runner's position
    idx,             \* position of the running `for _, h := range c.handlers`
    creds,           \* the Runner's local creds / cred
    timerAt,         \* deadline of regenCertTimer, NoTimer when not armed
    signals,         \* a signal is waiting on the signals channel
    ready,           \* the ready channel is closed
    result,          \* what the Runner returned
    issued,          \* number of credentials generated so far
    fires,           \* number of timer fires serviced so far
    log,             \* every call of generateCreds, on a handler, on the metron client
    createRet,       \* what CreateCredDir returned
    removeRet,       \* what RemoveCredDir returned
    container,       \* the executor.Container: its InternalIP and ExternalIP
    rotationDuration, \* the Runner's local rotationDuration
    action,          \* perform: the models.RunAction, its Timeout
    stream,          \* perform: the payloads the process has yet to stream
    ppc,             \* perform: its position
    gpc,             \* perform: the position of the goroutine it starts
    exitStatusChan,  \* perform: make(chan uint32, 1)
    errChan,         \* perform: make(chan error, 1)
    timeoutChan,     \* perform: nil, or the channel of time.After
    performRet,      \* perform: what it returned
    emitter,         \* perform: the emitter, nil or not, and what it was given
    sends            \* perform: values the goroutine has sent so far

vars == <<handlers, validityPeriod, now, phase, pc, idx, creds, timerAt, signals,
          ready, result, issued, fires, log, createRet, removeRet, container,
          rotationDuration, action, stream, ppc, gpc, exitStatusChan, errChan,
          timeoutChan, performRet, emitter, sends>>

runnerVars == <<pc, idx, creds, timerAt, signals, ready, result, issued, fires,
                rotationDuration>>

\* What neither the credential manager's methods nor the Runner write.
performVars == <<action, stream, ppc, gpc, exitStatusChan, errChan, timeoutChan,
                 performRet, emitter, sends>>
otherVars == <<container, performVars>>

\* ----------------------------------------------------------- values
ContainerGuid == "container-guid"
NoTimer == -1
Running == "running"      \* result: the Runner has not returned
NilError == "nil"
GenError == "generate-credentials-failed"

CredCreationSucceededCount == "CredCreationSucceededCount"
CredCreationSucceededDuration == "CredCreationSucceededDuration"
CredCreationFailedCount == "CredCreationFailedCount"

NoDuration == -1

\* The Credential{} of a failed generation, and of a Runner that has none yet.
NoCred == [cn |-> "none", serial |-> 0, notBefore |-> 0, notAfter |-> 0,
           ips |-> <<>>, dns |-> <<>>]

\* The strings a container may carry as InternalIP and ExternalIP: none, two
\* addresses, and a text that is no address.
IPStrings == {"", "10.0.0.1", "192.168.0.2", "not-an-ip"}
Containers == [InternalIP : IPStrings, ExternalIP : IPStrings]
TheContainer == [InternalIP |-> "10.0.0.1", ExternalIP |-> "192.168.0.2"]

\* net.ParseIP: the address a text denotes, nil when it denotes none.
NilIP == [addr |-> "nil"]
ParseIP(text) ==
    IF text \in {"10.0.0.1", "192.168.0.2"} THEN [addr |-> text] ELSE NilIP

HandlerName(k) == <<"h1", "h2", "h3", "h4", "h5">>[k]

\* The error handler k returns when one of its calls fails.
HandlerError(op, k) == op \o " " \o HandlerName(k) \o " failed"

\* What handler k's CreateDir returns on success: handlers differ in how
\* many mounts and environment variables they hand back (possibly none).
HandlerMounts(k) == [i \in 1..(k % 3) |-> <<"mount", k, i>>]
HandlerEnv(k) == [i \in 1..((k + 1) % 2) |-> <<"env", k, i>>]

\* The entries of the log: a call on handler k, a call on the metron client,
\* a call of generateCreds with the guid it was asked for.
Event(op, k, cred, ok) ==
    [op |-> op, h |-> k, cred |-> cred, ok |-> ok, guid |-> "-"]
Metric(name) ==
    [op |-> name, h |-> 0, cred |-> NoCred, ok |-> TRUE, guid |-> "-"]
GenCall(certGUID, cred, ok) ==
    [op |-> "generateCreds", h |-> 0, cred |-> cred, ok |-> ok, guid |-> certGUID]

\* ---------------------------------------------------------- scheduler
\* calculateCredentialRotationPeriod keeping a quarter of the period as slack.
calculateCredentialRotationPeriod_Quarter(p) ==
    IF p > FourHours
    THEN p - HalfHour
    ELSE LET quarter == IF p >= 0 THEN p \div 4 ELSE -((-p) \div 4)
         IN  p - quarter

calculateCredentialRotationPeriod(p) ==
    IF p > FourHours
    THEN p - HalfHour
    ELSE LET eighth == IF p >= 0 THEN p \div 8 ELSE -((-p) \div 8)
         IN  p - eighth

\* ---------------------------------------------------------- the forge
\* createCertificateTemplate parsing the address whether or not there is one.
createCertificateTemplate_AlwaysParses(ipaddress, guid, notBefore, notAfter) ==
    [cn |-> guid, serial |-> 0, notBefore |-> notBefore, notAfter |-> notAfter,
     ips |-> <<ParseIP(ipaddress)>>, dns |-> <<guid>>]

createCertificateTemplate(ipaddress, guid, notBefore, notAfter) ==
    LET ipaddr == IF Len(ipaddress) = 0 THEN <<>> ELSE <<ParseIP(ipaddress)>>
    IN  [cn |-> guid, serial |-> 0, notBefore |-> notBefore, notAfter |-> notAfter,
         ips |-> ipaddr, dns |-> <<guid>>]

\* generateCreds with a certificate that expires when the rotation is due.
generateCreds_ExpiresAtRotation(certGUID) ==
    LET ipForCert == IF Len(container.InternalIP) = 0
                     THEN container.ExternalIP
                     ELSE container.InternalIP
        startValidity == now
        template == createCertificateTemplate(ipForCert, certGUID, startValidity,
                        startValidity + calculateCredentialRotationPeriod(validityPeriod))
    IN  [template EXCEPT !.serial = issued + 1]

\* generateCreds: the certificate carries certGUID as common name, a serial
\* of its own, the validity window [Now, Now + validityPeriod] and the
\* container's internal address or, without one, its external address.
generateCreds(certGUID) ==
    LET ipForCert == IF Len(container.InternalIP) = 0
                     THEN container.ExternalIP
                     ELSE container.InternalIP
        startValidity == now
        template == createCertificateTemplate(ipForCert, certGUID, startValidity,
                                              startValidity + validityPeriod)
    IN  [template EXCEPT !.serial = issued + 1]

\* ------------------------------------------------- the container's life
\* The caller (the container store) prepares the credential directories
\* once, before the Runner is started, runs the Runner once, and tears the
\* directories down once, when no Runner is running: after the Runner has
\* returned, or for a container that was never run.
CallerPrepares == phase = "Idle"
CallerStarts == phase = "Prepared"
CallerTearsDown ==
    \/ phase \in {"NotStarted", "Prepared"}
    \/ phase = "Running" /\ pc = "done"

\* ------------------------------------------------------- CreateCredDir
\* CreateDirLoop going on to the next handler when CreateDir fails, the
\* error of the last failure returned.
RECURSIVE CreateDirLoop_ContinuesOnError(_, _, _, _, _)
CreateDirLoop_ContinuesOnError(k, outs, mounts, envs, calls) ==
    IF k > handlers
    THEN [mounts |-> mounts, envs |-> envs, err |-> NilError, calls |-> calls]
    ELSE LET rest == CreateDirLoop_ContinuesOnError(
                        k + 1, outs,
                        IF outs[k] THEN mounts \o HandlerMounts(k) ELSE mounts,
                        IF outs[k] THEN envs \o HandlerEnv(k) ELSE envs,
                        Append(calls, Event("CreateDir", k, NoCred, outs[k])))
         IN  IF outs[k] \/ rest.err # NilError
             THEN rest
             ELSE [mounts |-> <<>>, envs |-> <<>>,
                   err |-> HandlerError("CreateDir", k), calls |-> rest.calls]

\* The loop of CreateCredDir from handler k on; outs[k] tells whether
\* handler k's CreateDir succeeds. Yields the returned triple and the calls.
RECURSIVE CreateDirLoop(_, _, _, _, _)
CreateDirLoop(k, outs, mounts, envs, calls) ==
    IF k > handlers
    THEN [mounts |-> mounts, envs |-> envs, err |-> NilError, calls |-> calls]
    ELSE IF ~outs[k]
         THEN [mounts |-> <<>>, envs |-> <<>>, err |-> HandlerError("CreateDir", k),
               calls |-> Append(calls, Event("CreateDir", k, NoCred, FALSE))]
         ELSE CreateDirLoop(k + 1, outs, mounts \o HandlerMounts(k),
                            envs \o HandlerEnv(k),
                            Append(calls, Event("CreateDir", k, NoCred, TRUE)))

CreateCredDir ==
    /\ CallerPrepares
    /\ \E outs \in [1..handlers -> BOOLEAN] :
         LET r == CreateDirLoop(1, outs, <<>>, <<>>, <<>>) IN
         /\ createRet' = [mounts |-> r.mounts, envs |-> r.envs, err |-> r.err]
         /\ log' = log \o r.calls
         /\ phase' = IF r.err = NilError THEN "Prepared" ELSE "NotStarted"
    /\ UNCHANGED <<handlers, validityPeriod, now, removeRet>>
    /\ UNCHANGED runnerVars
    /\ UNCHANGED otherVars

\* ------------------------------------------------------- RemoveCredDir
\* multierror.Append(err, handlerErr): a nil error is not appended.
MultierrorAppend(errs, e) == IF e = NilError THEN errs ELSE Append(errs, e)

\* The ErrorFormat closure of RemoveCredDir, over errs[i..].
RECURSIVE ErrorFormatFrom(_, _, _)
ErrorFormatFrom(errs, i, s) ==
    IF i > Len(errs) THEN s
    ELSE IF errs[i] # NilError
         THEN ErrorFormatFrom(errs, i + 1,
                              (IF s # "" THEN s \o "; " ELSE s) \o errs[i])
         ELSE ErrorFormatFrom(errs, i + 1, s)

ErrorFormat(errs) == ErrorFormatFrom(errs, 1, "")

\* RemoveDirLoop stopping at the first handler that fails.
RECURSIVE RemoveDirLoop_FailFast(_, _, _, _)
RemoveDirLoop_FailFast(k, outs, errs, calls) ==
    IF k > handlers
    THEN [errs |-> errs, calls |-> calls]
    ELSE IF outs[k]
         THEN RemoveDirLoop_FailFast(k + 1, outs, errs,
                                     Append(calls, Event("RemoveDir", k, NoCred, TRUE)))
         ELSE [errs |-> Append(errs, HandlerError("RemoveDir", k)),
               calls |-> Append(calls, Event("RemoveDir", k, NoCred, FALSE))]

\* The loop of RemoveCredDir from handler k on.
RECURSIVE RemoveDirLoop(_, _, _, _)
RemoveDirLoop(k, outs, errs, calls) ==
    IF k > handlers
    THEN [errs |-> errs, calls |-> calls]
    ELSE LET handlerErr == IF outs[k] THEN NilError ELSE HandlerError("RemoveDir", k)
         IN  RemoveDirLoop(k + 1, outs, MultierrorAppend(errs, handlerErr),
                           Append(calls, Event("RemoveDir", k, NoCred, outs[k])))

\* `return err`: the *multierror.Error the function built, converted to the
\* error interface. The pointer is never nil, so neither is the interface
\* value, whatever the list of errors holds.
RemoveCredDirReturn(errs) ==
    [isNil |-> FALSE, errors |-> errs, message |-> ErrorFormat(errs)]

RemoveCredDir ==
    /\ CallerTearsDown
    /\ \E outs \in [1..handlers -> BOOLEAN] :
         LET r == RemoveDirLoop(1, outs, <<>>, <<>>) IN
         /\ removeRet' = RemoveCredDirReturn(r.errs)
         /\ log' = log \o r.calls
    /\ phase' = "Removed"
    /\ UNCHANGED <<handlers, validityPeriod, now, createRet>>
    /\ UNCHANGED runnerVars
    /\ UNCHANGED otherVars

\* -------------------------------------------------------------- Runner
callerVars == <<handlers, validityPeriod, phase, createRet, removeRet, otherVars>>

\* The caller runs the ifrit runner that Runner returned.
StartRunner ==
    /\ CallerStarts
    /\ pc = "idle"
    /\ phase' = "Running"
    /\ pc' = "generate"
    /\ UNCHANGED <<handlers, validityPeriod, now, createRet, removeRet, log>>
    /\ UNCHANGED <<idx, creds, timerAt, signals, ready, result, issued, fires>>
    /\ UNCHANGED <<rotationDuration, otherVars>>

\* `return err`: the Runner is over.
Return(err) ==
    /\ result' = err
    /\ pc' = "done"

\* The first generateCreds of the Runner, with the container's guid.
InitialGenerate ==
    /\ pc = "generate"
    /\ \E ok \in BOOLEAN :
         IF ok
         THEN /\ creds' = generateCreds(ContainerGuid)
              /\ issued' = issued + 1
              /\ idx' = 1
              /\ pc' = "update"
              /\ log' = Append(log, GenCall(ContainerGuid, creds', TRUE))
              /\ UNCHANGED result
         ELSE /\ log' = log \o <<GenCall(ContainerGuid, NoCred, FALSE),
                                 Metric(CredCreationFailedCount)>>
              /\ Return(GenError)
              /\ UNCHANGED <<creds, issued, idx>>
    /\ UNCHANGED <<timerAt, signals, ready, fires, now>>
    /\ UNCHANGED <<callerVars, rotationDuration>>

\* InitialUpdate with the error of Update dropped.
InitialUpdate_IgnoresError ==
    /\ pc = "update"
    /\ idx <= handlers
    /\ \E ok \in BOOLEAN :
         log' = Append(log, Event("Update", idx, creds, ok))
    /\ idx' = idx + 1
    /\ UNCHANGED <<pc, result, creds, timerAt, signals, ready, issued, fires, now>>
    /\ UNCHANGED <<callerVars, rotationDuration>>

\* One iteration of the first `for _, h := range c.handlers { h.Update }`.
InitialUpdate ==
    /\ pc = "update"
    /\ idx <= handlers
    /\ \E ok \in BOOLEAN :
         /\ log' = Append(log, Event("Update", idx, creds, ok))
         /\ IF ok
            THEN /\ idx' = idx + 1
                 /\ UNCHANGED <<pc, result>>
            ELSE /\ Return(HandlerError("Update", idx))
                 /\ UNCHANGED idx
    /\ UNCHANGED <<creds, timerAt, signals, ready, issued, fires, now>>
    /\ UNCHANGED <<callerVars, rotationDuration>>

\* After the first fan-out: the success metrics, the timer, close(ready).
InitialStarted ==
    /\ pc = "update"
    /\ idx > handlers
    /\ log' = log \o <<Metric(CredCreationSucceededCount),
                       Metric(CredCreationSucceededDuration)>>
    /\ rotationDuration' = calculateCredentialRotationPeriod(validityPeriod)
    /\ timerAt' = now + rotationDuration'
    /\ ready' = TRUE
    /\ pc' = "select"
    /\ UNCHANGED <<idx, creds, signals, result, issued, fires, now>>
    /\ UNCHANGED callerVars

\* The timer's channel holds a value.
TimerFired == timerAt # NoTimer /\ now >= timerAt

\* Regenerate handing the credential of the cycle before to the fan-out.
Regenerate_KeepsCreds ==
    /\ pc = "select"
    /\ TimerFired
    /\ fires < MaxFires
    /\ timerAt' = NoTimer
    /\ \E ok \in BOOLEAN :
         IF ok
         THEN /\ issued' = issued + 1
              /\ log' = log \o <<GenCall(ContainerGuid, generateCreds(ContainerGuid), TRUE),
                                 Metric(CredCreationSucceededCount),
                                 Metric(CredCreationSucceededDuration)>>
              /\ idx' = 1
              /\ pc' = "regen_update"
              /\ UNCHANGED <<result, creds>>
         ELSE /\ log' = log \o <<GenCall(ContainerGuid, NoCred, FALSE),
                                 Metric(CredCreationFailedCount)>>
              /\ Return(GenError)
              /\ UNCHANGED <<creds, issued, idx>>
    /\ UNCHANGED <<signals, ready, fires, now>>
    /\ UNCHANGED <<callerVars, rotationDuration>>

\* Regenerate going back to wait for the next timer when generation fails.
Regenerate_Retries ==
    /\ pc = "select"
    /\ TimerFired
    /\ fires < MaxFires
    /\ \E ok \in BOOLEAN :
         IF ok
         THEN /\ creds' = generateCreds(ContainerGuid)
              /\ issued' = issued + 1
              /\ log' = log \o <<GenCall(ContainerGuid, creds', TRUE),
                                 Metric(CredCreationSucceededCount),
                                 Metric(CredCreationSucceededDuration)>>
              /\ idx' = 1
              /\ pc' = "regen_update"
              /\ timerAt' = NoTimer
              /\ UNCHANGED <<result, fires>>
         ELSE /\ log' = log \o <<GenCall(ContainerGuid, NoCred, FALSE),
                                 Metric(CredCreationFailedCount)>>
              /\ timerAt' = now + calculateCredentialRotationPeriod(validityPeriod)
              /\ fires' = fires + 1
              /\ UNCHANGED <<creds, issued, idx, pc, result>>
    /\ UNCHANGED <<signals, ready, now>>
    /\ UNCHANGED <<callerVars, rotationDuration>>

\* case <-regenCertTimer.C(): a new credential and its metrics.
Regenerate ==
    /\ pc = "select"
    /\ TimerFired
    /\ fires < MaxFires
    /\ timerAt' = NoTimer
    /\ \E ok \in BOOLEAN :
         IF ok
         THEN /\ creds' = generateCreds(ContainerGuid)
              /\ issued' = issued + 1
              /\ log' = log \o <<GenCall(ContainerGuid, creds', TRUE),
                                 Metric(CredCreationSucceededCount),
                                 Metric(CredCreationSucceededDuration)>>
              /\ idx' = 1
              /\ pc' = "regen_update"
              /\ UNCHANGED result
         ELSE /\ log' = log \o <<GenCall(ContainerGuid, NoCred, FALSE),
                                 Metric(CredCreationFailedCount)>>
              /\ Return(GenError)
              /\ UNCHANGED <<creds, issued, idx>>
    /\ UNCHANGED <<signals, ready, fires, now>>
    /\ UNCHANGED <<callerVars, rotationDuration>>

\* RegenUpdate going on to the next handler when Update fails.
RegenUpdate_ContinuesOnError ==
    /\ pc = "regen_update"
    /\ idx <= handlers
    /\ \E ok \in BOOLEAN :
         log' = Append(log, Event("Update", idx, creds, ok))
    /\ idx' = idx + 1
    /\ UNCHANGED <<pc, result, creds, timerAt, signals, ready, issued, fires, now>>
    /\ UNCHANGED <<callerVars, rotationDuration>>

\* RegenUpdate closing the handlers when an Update fails.
RegenUpdate_ClosesOnError ==
    /\ pc = "regen_update"
    /\ idx <= handlers
    /\ \E ok \in BOOLEAN :
         /\ log' = Append(log, Event("Update", idx, creds, ok))
         /\ IF ok
            THEN /\ idx' = idx + 1
                 /\ UNCHANGED pc
            ELSE /\ idx' = 1
                 /\ pc' = "close"
    /\ UNCHANGED <<result, creds, timerAt, signals, ready, issued, fires, now>>
    /\ UNCHANGED <<callerVars, rotationDuration>>

\* RegenUpdate looking at the signals before each Update and leaving the
\* fan-out for the Close loop when one is pending.
RegenUpdate_ChecksSignal ==
    /\ pc = "regen_update"
    /\ idx <= handlers
    /\ IF signals
       THEN /\ signals' = FALSE
            /\ idx' = 1
            /\ pc' = "close"
            /\ UNCHANGED <<result, log>>
       ELSE /\ \E ok \in BOOLEAN :
                 /\ log' = Append(log, Event("Update", idx, creds, ok))
                 /\ IF ok
                    THEN /\ idx' = idx + 1
                         /\ UNCHANGED <<pc, result>>
                    ELSE /\ Return(HandlerError("Update", idx))
                         /\ UNCHANGED idx
            /\ UNCHANGED signals
    /\ UNCHANGED <<creds, timerAt, ready, issued, fires, now>>
    /\ UNCHANGED <<callerVars, rotationDuration>>

\* One iteration of the fan-out of a timer-driven cycle.
RegenUpdate ==
    /\ pc = "regen_update"
    /\ idx <= handlers
    /\ \E ok \in BOOLEAN :
         /\ log' = Append(log, Event("Update", idx, creds, ok))
         /\ IF ok
            THEN /\ idx' = idx + 1
                 /\ UNCHANGED <<pc, result>>
            ELSE /\ Return(HandlerError("Update", idx))
                 /\ UNCHANGED idx
    /\ UNCHANGED <<creds, timerAt, signals, ready, issued, fires, now>>
    /\ UNCHANGED <<callerVars, rotationDuration>>

\* regenCertTimer.Reset with the recomputed rotation period.
RegenRearm ==
    /\ pc = "regen_update"
    /\ idx > handlers
    /\ rotationDuration' = calculateCredentialRotationPeriod(validityPeriod)
    /\ timerAt' = now + rotationDuration'
    /\ fires' = fires + 1
    /\ pc' = "select"
    /\ UNCHANGED <<idx, creds, signals, ready, result, issued, now, log>>
    /\ UNCHANGED callerVars

\* Signalled going on to the Close loop, with the empty Credential, when the
\* final generation fails.
Signalled_ClosesAfterFailure ==
    /\ pc = "select"
    /\ signals
    /\ signals' = FALSE
    /\ \E ok \in BOOLEAN :
         IF ok
         THEN /\ creds' = generateCreds("")
              /\ issued' = issued + 1
              /\ log' = Append(log, GenCall("", creds', TRUE))
         ELSE /\ creds' = NoCred
              /\ log' = log \o <<GenCall("", NoCred, FALSE),
                                 Metric(CredCreationFailedCount)>>
              /\ UNCHANGED issued
    /\ idx' = 1
    /\ pc' = "close"
    /\ UNCHANGED <<result, timerAt, ready, fires, now>>
    /\ UNCHANGED <<callerVars, rotationDuration>>

\* Signalled reading the signals only once the timer has been stopped.
Signalled_AfterTimerStopped ==
    /\ pc = "select"
    /\ signals
    /\ timerAt = NoTimer
    /\ signals' = FALSE
    /\ \E ok \in BOOLEAN :
         IF ok
         THEN /\ creds' = generateCreds("")
              /\ issued' = issued + 1
              /\ idx' = 1
              /\ pc' = "close"
              /\ log' = Append(log, GenCall("", creds', TRUE))
              /\ UNCHANGED result
         ELSE /\ log' = log \o <<GenCall("", NoCred, FALSE),
                                 Metric(CredCreationFailedCount)>>
              /\ Return(GenError)
              /\ UNCHANGED <<creds, issued, idx>>
    /\ UNCHANGED <<timerAt, ready, fires, now>>
    /\ UNCHANGED <<callerVars, rotationDuration>>

\* case signal := <-signals: the final credential, with an empty guid.
Signalled ==
    /\ pc = "select"
    /\ signals
    /\ signals' = FALSE
    /\ \E ok \in BOOLEAN :
         IF ok
         THEN /\ creds' = generateCreds("")
              /\ issued' = issued + 1
              /\ idx' = 1
              /\ pc' = "close"
              /\ log' = Append(log, GenCall("", creds', TRUE))
              /\ UNCHANGED result
         ELSE /\ log' = log \o <<GenCall("", NoCred, FALSE),
                                 Metric(CredCreationFailedCount)>>
              /\ Return(GenError)
              /\ UNCHANGED <<creds, issued, idx>>
    /\ UNCHANGED <<timerAt, ready, fires, now>>
    /\ UNCHANGED <<callerVars, rotationDuration>>

\* SignalClose returning the first error of Close, as the Update loops do.
SignalClose_FailFast ==
    /\ pc = "close"
    /\ idx <= handlers
    /\ \E ok \in BOOLEAN :
         /\ log' = Append(log, Event("Close", idx, creds, ok))
         /\ IF ok
            THEN /\ idx' = idx + 1
                 /\ UNCHANGED <<pc, result>>
            ELSE /\ Return(HandlerError("Close", idx))
                 /\ UNCHANGED idx
    /\ UNCHANGED <<creds, timerAt, signals, ready, issued, fires, now>>
    /\ UNCHANGED <<callerVars, rotationDuration>>

\* One iteration of `for _, h := range c.handlers { h.Close(cred, container) }`:
\* what Close returns is dropped.
SignalClose ==
    /\ pc = "close"
    /\ idx <= handlers
    /\ \E ok \in BOOLEAN :
         log' = Append(log, Event("Close", idx, creds, ok))
    /\ idx' = idx + 1
    /\ UNCHANGED <<pc, creds, timerAt, signals, ready, result, issued, fires, now>>
    /\ UNCHANGED <<callerVars, rotationDuration>>

\* SignalReturn leaving the select only, not the Runner: the loop goes on.
SignalReturn_KeepsRunning ==
    /\ pc = "close"
    /\ idx > handlers
    /\ pc' = "select"
    /\ UNCHANGED <<result, idx, creds, timerAt, signals, ready, issued, fires, now, log>>
    /\ UNCHANGED <<callerVars, rotationDuration>>

\* logger.Info("signalled"); return nil
SignalReturn ==
    /\ pc = "close"
    /\ idx > handlers
    /\ Return(NilError)
    /\ UNCHANGED <<idx, creds, timerAt, signals, ready, issued, fires, now, log>>
    /\ UNCHANGED <<callerVars, rotationDuration>>

\* --------------------------------------------------------- environment
RunnerLive == pc \notin {"idle", "done"}

\* The process that runs the Runner sends it a signal.
SendSignal ==
    /\ RunnerLive
    /\ ~signals
    /\ signals' = TRUE
    /\ UNCHANGED <<pc, idx, creds, timerAt, ready, result, issued, fires, now, log>>
    /\ UNCHANGED <<callerVars, rotationDuration>>

\* Time passes. The Runner reads the clock in generateCreds and when it arms
\* the timer, and nowhere else: time that passes anywhere in a fan-out shows
\* only in the reading taken at the arming that follows, so it is let pass
\* there, and while the Runner waits in its select.
Tick ==
    /\ \/ pc = "select"
       \/ pc \in {"update", "regen_update"} /\ idx > handlers
    /\ now < MaxTime
    /\ now' = now + 1
    /\ UNCHANGED <<log>>
    /\ UNCHANGED runnerVars
    /\ UNCHANGED callerVars

\* ------------------------------------------------------- specification
\* No action is being performed.
PerformIdle ==
    /\ action = [Timeout |-> 0]
    /\ stream = <<>>
    /\ ppc = "idle"
    /\ gpc = "idle"
    /\ exitStatusChan = <<>>
    /\ errChan = <<>>
    /\ timeoutChan = "nil"
    /\ performRet = "none"
    /\ emitter = [isNil |-> TRUE, out |-> <<>>]
    /\ sends = 0

\* Nothing has been called yet.
Fresh ==
    /\ now = 0
    /\ phase = "Idle"
    /\ pc = "idle"
    /\ idx = 0
    /\ creds = NoCred
    /\ timerAt = NoTimer
    /\ signals = FALSE
    /\ ready = FALSE
    /\ result = Running
    /\ issued = 0
    /\ fires = 0
    /\ log = <<>>
    /\ createRet = [mounts |-> <<>>, envs |-> <<>>, err |-> "not-called"]
    /\ removeRet = [isNil |-> TRUE, errors |-> <<>>, message |-> "not-called"]
    /\ rotationDuration = NoDuration

Init ==
    /\ handlers \in 0..MaxHandlers
    /\ validityPeriod \in ValidityPeriods
    /\ container = TheContainer
    /\ Fresh
    /\ PerformIdle

\* The life of a container up to the return of its Runner.
Next ==
    \/ CreateCredDir
    \/ StartRunner
    \/ InitialGenerate
    \/ InitialUpdate
    \/ InitialStarted
    \/ Regenerate
    \/ RegenUpdate
    \/ RegenRearm
    \/ Signalled
    \/ SignalClose
    \/ SignalReturn
    \/ SendSignal
    \/ Tick

Spec == Init /\ [][Next]_vars

\* A step of the Runner's goroutine.
RunnerStep ==
    \/ InitialGenerate
    \/ InitialUpdate
    \/ InitialStarted
    \/ Regenerate
    \/ RegenUpdate
    \/ RegenRearm
    \/ Signalled
    \/ SignalClose
    \/ SignalReturn

\* The goroutine goes on whenever it can: generateCreds and the handlers
\* return, and a select with a ready case takes one. When the timer and the
\* signals are both ready the select picks one of them at random, so a
\* signal that is ready again and again is taken in the end.
LiveSpec ==
    /\ Init
    /\ [][Next]_vars
    /\ WF_vars(RunnerStep)
    /\ SF_vars(Signalled)

\* The directories of a container: prepared, and torn down.
DirNext ==
    \/ CreateCredDir
    \/ RemoveCredDir

DirSpec == Init /\ [][DirNext]_vars

\* ------------------------------------------- the scheduler and the forge
\* calculateCredentialRotationPeriod and generateCreds on their own, for any
\* validity period and any container.
PureInit ==
    /\ handlers = 0
    /\ validityPeriod \in 0..MaxPeriod
    /\ container \in Containers
    /\ Fresh
    /\ PerformIdle

CalcRotation ==
    /\ rotationDuration = NoDuration
    /\ rotationDuration' = calculateCredentialRotationPeriod(validityPeriod)
    /\ UNCHANGED <<pc, idx, creds, timerAt, signals, ready, result, issued, fires>>
    /\ UNCHANGED <<callerVars, now, log>>

Forge ==
    /\ creds = NoCred
    /\ \E certGUID \in {ContainerGuid, ""} :
         creds' = generateCreds(certGUID)
    /\ issued' = issued + 1
    /\ UNCHANGED <<pc, idx, timerAt, signals, ready, result, fires, rotationDuration>>
    /\ UNCHANGED <<callerVars, now, log>>

PureNext ==
    \/ CalcRotation
    \/ Forge

PureSpec == PureInit /\ [][PureNext]_vars

\* ------------------------------------------------ the action runner
\* RunRunner.perform of package actionrunner: it runs a script in the
\* container and waits for its exit status, an error, or the timeout.
MaxStream == 2            \* payloads a process streams

ChanCap == 1              \* make(chan uint32, 1), make(chan error, 1)

Timeouts == {-1, 0, 1}
RunError == "run-error"
RunActionTimeoutError == "RunActionTimeoutError"
ExitError(status) == "Process returned with exit value: " \o ToString(status)

Stdout == [Source |-> "stdout", HasExitStatus |-> FALSE, ExitStatus |-> 0]
Stderr == [Source |-> "stderr", HasExitStatus |-> FALSE, ExitStatus |-> 0]
Exited(status) == [Source |-> "none", HasExitStatus |-> TRUE, ExitStatus |-> status]
Payloads == {Stdout, Stderr, Exited(0), Exited(1)}
Streams == UNION {[1..n -> Payloads] : n \in 0..MaxStream}

managerVars == <<handlers, validityPeriod, now, phase, pc, idx, creds, timerAt,
                 signals, ready, result, issued, fires, log, createRet, removeRet,
                 container, rotationDuration>>

PerformInit ==
    /\ handlers = 0
    /\ validityPeriod = FourHours
    /\ container = TheContainer
    /\ Fresh
    /\ action \in [Timeout : Timeouts]
    /\ stream \in Streams
    /\ emitter \in [isNil : BOOLEAN, out : {<<>>}]
    /\ ppc = "start"
    /\ gpc = "idle"
    /\ exitStatusChan = <<>>
    /\ errChan = <<>>
    /\ timeoutChan = "nil"
    /\ performRet = "none"
    /\ sends = 0

\* The channels are made, time.After is called for a Timeout that is not
\* zero, the goroutine is started, and perform goes to its select.
PerformStart ==
    /\ ppc = "start"
    /\ timeoutChan' = IF action.Timeout # 0 THEN "armed" ELSE "nil"
    /\ gpc' = "run"
    /\ ppc' = "select"
    /\ UNCHANGED <<action, stream, exitStatusChan, errChan, performRet, emitter, sends>>
    /\ UNCHANGED managerVars

\* The timer of time.After sends the time on its channel.
TimeoutExpires ==
    /\ timeoutChan = "armed"
    /\ timeoutChan' = "fired"
    /\ UNCHANGED <<action, stream, ppc, gpc, exitStatusChan, errChan, performRet,
                   emitter, sends>>
    /\ UNCHANGED managerVars

\* runner.wardenClient.Run returns, with an error or with the stream.
GoRun ==
    /\ gpc = "run"
    /\ \E failed \in BOOLEAN :
         gpc' = IF failed THEN "send_err" ELSE "range"
    /\ UNCHANGED <<action, stream, ppc, exitStatusChan, errChan, timeoutChan,
                   performRet, emitter, sends>>
    /\ UNCHANGED managerVars

\* errChan <- err; return
GoSendErr ==
    /\ gpc = "send_err"
    /\ Len(errChan) < ChanCap
    /\ errChan' = Append(errChan, RunError)
    /\ sends' = sends + 1
    /\ gpc' = "end"
    /\ UNCHANGED <<action, stream, ppc, exitStatusChan, timeoutChan, performRet, emitter>>
    /\ UNCHANGED managerVars

\* One turn of `for payload := range stream`: the loop ends when the stream
\* is closed, leaves for the send when the payload carries an exit status
\* (the payload stays at the head of stream until it is sent), and gives any
\* other payload to the emitter, if there is one.
GoRange ==
    /\ gpc = "range"
    /\ IF stream = <<>>
       THEN /\ gpc' = "end"
            /\ UNCHANGED <<stream, emitter>>
       ELSE IF Head(stream).HasExitStatus
       THEN /\ gpc' = "send_exit"
            /\ UNCHANGED <<stream, emitter>>
       ELSE /\ emitter' = IF emitter.isNil
                          THEN emitter
                          ELSE [emitter EXCEPT !.out = Append(@, Head(stream).Source)]
            /\ stream' = Tail(stream)
            /\ UNCHANGED gpc
    /\ UNCHANGED <<action, ppc, exitStatusChan, errChan, timeoutChan, performRet, sends>>
    /\ UNCHANGED managerVars

\* GoSendExit going on with the range over the stream after the send.
GoSendExit_KeepsRanging ==
    /\ gpc = "send_exit"
    /\ Len(exitStatusChan) < ChanCap
    /\ exitStatusChan' = Append(exitStatusChan, Head(stream).ExitStatus)
    /\ stream' = Tail(stream)
    /\ sends' = sends + 1
    /\ gpc' = "range"
    /\ UNCHANGED <<action, ppc, errChan, timeoutChan, performRet, emitter>>
    /\ UNCHANGED managerVars

\* exitStatusChan <- payload.GetExitStatus(); break
GoSendExit ==
    /\ gpc = "send_exit"
    /\ Len(exitStatusChan) < ChanCap
    /\ exitStatusChan' = Append(exitStatusChan, Head(stream).ExitStatus)
    /\ stream' = Tail(stream)
    /\ sends' = sends + 1
    /\ gpc' = "end"
    /\ UNCHANGED <<action, ppc, errChan, timeoutChan, performRet, emitter>>
    /\ UNCHANGED managerVars

\* return from perform
PerformReturn(ret) ==
    /\ performRet' = ret
    /\ ppc' = "returned"

\* case exitStatus := <-exitStatusChan
SelectExitStatus ==
    /\ ppc = "select"
    /\ exitStatusChan # <<>>
    /\ exitStatusChan' = Tail(exitStatusChan)
    /\ LET exitStatus == Head(exitStatusChan)
       IN  IF exitStatus # 0
           THEN PerformReturn(ExitError(exitStatus))
           ELSE PerformReturn(NilError)
    /\ UNCHANGED <<action, stream, gpc, errChan, timeoutChan, emitter, sends>>
    /\ UNCHANGED managerVars

\* case err := <-errChan
SelectErr ==
    /\ ppc = "select"
    /\ errChan # <<>>
    /\ errChan' = Tail(errChan)
    /\ PerformReturn(Head(errChan))
    /\ UNCHANGED <<action, stream, gpc, exitStatusChan, timeoutChan, emitter, sends>>
    /\ UNCHANGED managerVars

\* case <-timeoutChan: a nil channel is never ready.
SelectTimeout ==
    /\ ppc = "select"
    /\ timeoutChan = "fired"
    /\ timeoutChan' = "drained"
    /\ PerformReturn(RunActionTimeoutError)
    /\ UNCHANGED <<action, stream, gpc, exitStatusChan, errChan, emitter, sends>>
    /\ UNCHANGED managerVars

\* The select of perform takes a case.
PerformSelect ==
    \/ SelectExitStatus
    \/ SelectErr
    \/ SelectTimeout

PerformNext ==
    \/ PerformStart
    \/ TimeoutExpires
    \/ GoRun
    \/ GoSendErr
    \/ GoRange
    \/ GoSendExit
    \/ SelectExitStatus
    \/ SelectErr
    \/ SelectTimeout

\* perform goes on whenever it can, and a timer that is armed expires. Of
\* the goroutine nothing is asked: Run may never return, the process may
\* never write.
PerformSpec ==
    /\ PerformInit
    /\ [][PerformNext]_vars
    /\ WF_vars(PerformStart)
    /\ WF_vars(TimeoutExpires)
    /\ WF_vars(PerformSelect)

TypeOK ==
    /\ handlers \in 0..MaxHandlers
    /\ pc \in {"idle", "generate", "update", "select", "regen_update", "close", "done"}
    /\ idx \in 0..(handlers + 1)

\* ------------------------------------------------------ reading the log
Positions == DOMAIN log
Closes == SelectSeq(log, LAMBDA e : e.op = "Close")
Gens == SelectSeq(log, LAMBDA e : e.op = "generateCreds")
UpdatesTo(k) == SelectSeq(log, LAMBDA e : e.op = "Update" /\ e.h = k)
CountOf(op) == Cardinality({i \in Positions : log[i].op = op})
FailedGenAt(i, certGUID) ==
    log[i].op = "generateCreds" /\ ~log[i].ok /\ log[i].guid = certGUID
LastCall(i) == i = Len(log)

\* ------------------------------------------------------------------ C1
\* C1: a stop signal serviced in the steady-state loop generates one final
\* credential with an empty common name, Close is called with it exactly once
\* on every handler in registration order, and the Runner returns nil,
\* whatever the Close calls return.
C1_StopClosesEveryHandler ==
    creds.cn = "" =>
        /\ pc \in {"close", "done"}
        /\ Cardinality({i \in Positions : log[i].op = "generateCreds"
                                            /\ log[i].guid = ""}) = 1
        /\ Len(Closes) = (IF pc = "done" THEN handlers ELSE idx - 1)
        /\ \A i \in 1..Len(Closes) : Closes[i].h = i /\ Closes[i].cred = creds
        /\ pc = "done" => result = NilError

C1_Witness ==
    /\ pc = "done" /\ creds.cn = "" /\ handlers >= 2
    /\ Len(Closes) = handlers
    /\ ~Closes[1].ok

\* ------------------------------------------------------------------ C2
\* C2: the Runner starts with an issuance for the container's guid, before
\* any timer exists, and closes ready only after that credential was
\* generated and Update succeeded on every handler; when the first
\* generation or a first Update fails it returns the error, ready unclosed.
C2_ReadyOnlyAfterFirstCycle ==
    /\ pc = "generate" => (timerAt = NoTimer /\ fires = 0 /\ issued = 0 /\ ~ready)
    /\ pc \notin {"idle", "generate"} =>
         (log[handlers + 1].op = "generateCreds"
            /\ log[handlers + 1].guid = ContainerGuid)
    /\ ready =>
         /\ log[handlers + 1].ok
         /\ log[handlers + 1].cred.cn = ContainerGuid
         /\ \A k \in 1..handlers :
              log[handlers + 1 + k]
                 = Event("Update", k, log[handlers + 1].cred, TRUE)
    /\ (pc = "done" /\ issued = 0) => (~ready /\ result = GenError)
    /\ \A i \in Positions :
         (log[i].op = "Update" /\ log[i].cred.serial = 1 /\ ~log[i].ok) =>
            (~ready /\ pc = "done" /\ result = HandlerError("Update", log[i].h))

C2_Witness == ready /\ handlers >= 2 /\ fires = 0 /\ pc = "select"

\* ------------------------------------------------------------------ C3
NoFailure ==
    /\ result \in {Running, NilError}
    /\ \A i \in Positions : log[i].op \in {"Update", "generateCreds"} => log[i].ok

\* The Update calls handler k has received, by the Runner's position.
UpdatesDue(k) ==
    CASE pc \in {"idle", "generate"} -> 0
      [] pc = "update" -> IF k < idx THEN 1 ELSE 0
      [] pc = "regen_update" -> fires + 1 + (IF k < idx THEN 1 ELSE 0)
      [] OTHER -> fires + 1

C3_Counts ==
    NoFailure =>
        /\ \A k \in 1..handlers :
             /\ Len(UpdatesTo(k)) = UpdatesDue(k)
             /\ \A j \in 1..Len(UpdatesTo(k)) :
                  /\ UpdatesTo(k)[j].cred = Gens[j].cred
                  /\ UpdatesTo(k)[j].cred.cn = ContainerGuid
        /\ pc = "select" =>
             /\ timerAt # NoTimer
             /\ Cardinality({i \in Positions : log[i].op = "generateCreds"})
                   = fires + 1

C3_Rearm ==
    (pc = "regen_update" /\ pc' = "select") =>
        timerAt' = now + calculateCredentialRotationPeriod(validityPeriod)

\* C3: with no failure, every serviced timer fire makes one more issuance and
\* one Update per handler with the credential of that cycle, and re-arms the
\* timer with the rotation period; after n fires a handler has n+1 Updates.
C3_TimerFireIssuesOnce == [](C3_Counts) /\ [][C3_Rearm]_vars

C3_Witness ==
    /\ pc = "select" /\ fires = 2 /\ handlers >= 2 /\ NoFailure
    /\ Len(UpdatesTo(handlers)) = 3

\* ------------------------------------------------------------------ C4
\* C4: when generation fails in the initial or in a timer-driven cycle, the
\* failure counter is incremented once, no Update is made for that cycle,
\* nothing is retried and the Runner returns the generation error.
C4_GenerationFailureIsFatal ==
    \A i \in Positions :
        FailedGenAt(i, ContainerGuid) =>
            /\ i < Len(log)
            /\ log[i + 1] = Metric(CredCreationFailedCount)
            /\ LastCall(i + 1)
            /\ CountOf(CredCreationFailedCount) = 1
            /\ pc = "done"
            /\ result = GenError

C4_Witness ==
    /\ fires = 1 /\ handlers >= 1 /\ result = GenError
    /\ \E i \in Positions : FailedGenAt(i, ContainerGuid)

\* ------------------------------------------------------------------ C5
\* C5: an Update fan-out calls the handlers in registration order and stops
\* at the first error: no later handler is called, nothing is undone on the
\* earlier ones, and the Runner returns the error of the handler that failed.
C5_UpdateFailFast ==
    \A i \in Positions :
        log[i].op = "Update" =>
            /\ i > 1
            /\ IF log[i].h = 1
               THEN log[i - 1].op # "Update"
               ELSE log[i - 1] = Event("Update", log[i].h - 1, log[i].cred, TRUE)
            /\ ~log[i].ok =>
                 /\ pc = "done"
                 /\ result = HandlerError("Update", log[i].h)
                 /\ LastCall(i)

C5_Witness ==
    /\ handlers = 3
    /\ \E i \in Positions :
         /\ log[i].op = "Update" /\ ~log[i].ok
         /\ log[i].h = 2 /\ log[i].cred.serial = 2

\* ------------------------------------------------------------------ C6
CreateDirs == SelectSeq(log, LAMBDA e : e.op = "CreateDir")

\* The mounts and environment variables of handlers 1..k, in that order.
RECURSIVE MountsUpTo(_)
MountsUpTo(k) == IF k = 0 THEN <<>> ELSE MountsUpTo(k - 1) \o HandlerMounts(k)
RECURSIVE EnvUpTo(_)
EnvUpTo(k) == IF k = 0 THEN <<>> ELSE EnvUpTo(k - 1) \o HandlerEnv(k)

\* C6: CreateCredDir calls CreateDir in registration order; when handler k
\* fails it returns that error with no mounts and no environment variables,
\* having called no later handler and undone nothing; when all succeed it
\* returns every handler's mounts and variables, in order, and no error.
C6_CreateCredDirFailFast ==
    createRet.err # "not-called" =>
        /\ \A i \in 1..Len(CreateDirs) : CreateDirs[i].h = i
        /\ IF createRet.err = NilError
           THEN /\ Len(CreateDirs) = handlers
                /\ \A i \in 1..handlers : CreateDirs[i].ok
                /\ createRet.mounts = MountsUpTo(handlers)
                /\ createRet.envs = EnvUpTo(handlers)
           ELSE /\ Len(CreateDirs) \in 1..handlers
                /\ \A i \in 1..Len(CreateDirs) :
                     CreateDirs[i].ok <=> i < Len(CreateDirs)
                /\ createRet.err = HandlerError("CreateDir", Len(CreateDirs))
                /\ createRet.mounts = <<>>
                /\ createRet.envs = <<>>
        /\ phase \in {"Prepared", "NotStarted"} =>
             \A i \in Positions : log[i].op = "CreateDir"

C6_Witness ==
    /\ handlers = 3
    /\ createRet.err = HandlerError("CreateDir", 2)
    /\ Len(CreateDirs) = 2

\* ------------------------------------------------------------------ C7
RemoveDirs == SelectSeq(log, LAMBDA e : e.op = "RemoveDir")

\* The messages of the handlers whose RemoveDir failed, in handler order.
FailedMessages ==
    LET failed == SelectSeq(RemoveDirs, LAMBDA e : ~e.ok)
    IN  [i \in 1..Len(failed) |-> HandlerError("RemoveDir", failed[i].h)]

\* msgs[i..] each preceded by the separator.
RECURSIVE Separated(_, _)
Separated(msgs, i) ==
    IF i > Len(msgs) THEN "" ELSE "; " \o msgs[i] \o Separated(msgs, i + 1)

Joined(msgs) == IF msgs = <<>> THEN "" ELSE msgs[1] \o Separated(msgs, 2)

\* C7: RemoveCredDir calls RemoveDir on every handler once, in registration
\* order, whatever fails, and its combined error lists the messages of the
\* handlers that failed, in handler order, separated by "; ".
C7_RemoveCredDirAggregates ==
    phase = "Removed" =>
        /\ Len(RemoveDirs) = handlers
        /\ \A i \in 1..handlers : RemoveDirs[i].h = i
        /\ removeRet.errors = FailedMessages
        /\ removeRet.message = Joined(FailedMessages)

C7_Witness ==
    /\ phase = "Removed" /\ handlers = 3
    /\ Len(RemoveDirs) = 3
    /\ RemoveDirs[1].ok /\ ~RemoveDirs[2].ok /\ RemoveDirs[3].ok
    /\ removeRet.message = "RemoveDir h2 failed"

\* ------------------------------------------------------------------ C8
\* C8: when every RemoveDir succeeds (also with no handler at all), the
\* value RemoveCredDir returns is the nil error.
C8_NoFailureYieldsNil ==
    (phase = "Removed" /\ \A i \in 1..Len(RemoveDirs) : RemoveDirs[i].ok) =>
        removeRet.isNil

\* ------------------------------------------------------------------ C9
\* C9: when the generation of the final credential fails, the Runner
\* increments the failure counter, returns that error and calls no Close.
C9_FinalGenerationFailure ==
    \A i \in Positions :
        FailedGenAt(i, "") =>
            /\ i < Len(log)
            /\ log[i + 1] = Metric(CredCreationFailedCount)
            /\ LastCall(i + 1)
            /\ CountOf(CredCreationFailedCount) = 1
            /\ Len(Closes) = 0
            /\ pc = "done"
            /\ result = GenError

C9_Witness ==
    /\ handlers >= 1 /\ pc = "done"
    /\ \E i \in Positions : FailedGenAt(i, "")

\* ----------------------------------------------------------------- C10
\* C10: every Update follows the CreateDir of its handler, and Close is the
\* last event: once a handler has received Close, no handler receives an
\* Update or a CreateDir.
C10_CreateFirstCloseLast ==
    \A j \in Positions :
        /\ log[j].op = "Update" =>
             \E i \in 1..(j - 1) : log[i] = Event("CreateDir", log[j].h, NoCred, TRUE)
        /\ log[j].op \in {"Update", "CreateDir"} =>
             \A i \in 1..(j - 1) : log[i].op # "Close"
        /\ log[j].op = "CreateDir" =>
             \A i \in 1..(j - 1) : log[i].op # "Update"

C10_Witness ==
    /\ pc = "done" /\ handlers >= 2 /\ fires >= 1
    /\ Len(Closes) = handlers

\* ----------------------------------------------------------------- C11
\* The calls logged before position j.
CountBefore(j, op) == Cardinality({i \in 1..(j - 1) : log[i].op = op})
GeneratedBefore(j) ==
    Cardinality({i \in 1..(j - 1) : log[i].op = "generateCreds" /\ log[i].ok})

\* C11: in every issuance cycle the success counter and the duration sample
\* of that cycle are emitted before the first Update call of its fan-out.
C11_TelemetryBeforeFanOut ==
    \A j \in Positions :
        (log[j].op = "Update" /\ log[j].h = 1) =>
            /\ CountBefore(j, CredCreationSucceededCount) = GeneratedBefore(j)
            /\ CountBefore(j, CredCreationSucceededDuration) = GeneratedBefore(j)

\* ----------------------------------------------------------------- C12
\* C12: every generation of a credential fires telemetry exactly once: the
\* success counter with one duration sample, or the failure counter,
\* whatever becomes of the fan-out that follows.
C12_TelemetryOncePerAttempt ==
    pc \in {"select", "done"} =>
        /\ CountOf(CredCreationSucceededCount)
              = Cardinality({i \in Positions : log[i].op = "generateCreds" /\ log[i].ok})
        /\ CountOf(CredCreationSucceededDuration)
              = CountOf(CredCreationSucceededCount)
        /\ CountOf(CredCreationFailedCount)
              = Cardinality({i \in Positions : log[i].op = "generateCreds" /\ ~log[i].ok})

\* ----------------------------------------------------------------- C13
\* floor(p / 8) for p >= 0: the q with 8q <= p < 8(q + 1).
FloorEighth(p) == CHOOSE q \in 0..p : 8 * q <= p /\ p < 8 * (q + 1)

\* C13: the rotation delay of a validity period p is p - 30m when p > 4h and
\* p - floor(p / 8) otherwise, p = 4h included.
C13_RotationDelay ==
    rotationDuration # NoDuration =>
        rotationDuration = IF validityPeriod > FourHours
                           THEN validityPeriod - HalfHour
                           ELSE validityPeriod - FloorEighth(validityPeriod)

C13_Witness ==
    /\ validityPeriod = FourHours
    /\ rotationDuration = FourHours - 2


\* ----------------------------------------------------------------- C14
\* The last successful generateCreds before position j of the log.
LastGenBefore(j) ==
    LET gs == {i \in 1..(j - 1) : log[i].op = "generateCreds" /\ log[i].ok}
    IN  IF gs = {} THEN 0 ELSE CHOOSE i \in gs : \A m \in gs : m <= i

Handed == {j \in Positions : log[j].op \in {"Update", "Close"}}

C14_Windows ==
    /\ \A j \in Handed :
         /\ log[j].cred.notAfter - log[j].cred.notBefore = validityPeriod
         /\ LastGenBefore(j) # 0
         /\ log[j].cred = log[LastGenBefore(j)].cred
    /\ \A i, j \in Handed :
         i < j => log[i].cred.notBefore <= log[j].cred.notBefore

C14_Stamp ==
    issued' = issued + 1 =>
        /\ creds'.notBefore = now
        /\ creds'.notAfter = now + validityPeriod

\* C14: every credential handed to the handlers is valid from the clock
\* reading of its generation for exactly validityPeriod; the handlers of one
\* fan-out all get the credential of that cycle; windows never move backwards.
C14_ValidityWindow == [](C14_Windows) /\ [][C14_Stamp]_vars

C14_Witness ==
    \E i, j \in Handed :
        /\ i < j
        /\ log[i].op = "Update" /\ log[i].h = 1
        /\ log[j].op = "Update" /\ log[j].h = 2
        /\ log[i].cred = log[j].cred
        /\ log[i].cred.notBefore > 0


\* ----------------------------------------------------------------- C15
\* The address the certificate is to name: the internal address when there
\* is one, else the external address, else none.
SelectedIP ==
    IF container.InternalIP # "" THEN container.InternalIP
    ELSE IF container.ExternalIP # "" THEN container.ExternalIP
    ELSE ""

\* C15: the certificate's IP SAN is the internal address when it is not
\* empty, else the external address when that is not empty, else the
\* certificate carries no IP SAN at all.
C15_IPSelection ==
    creds # NoCred =>
        IF SelectedIP = ""
        THEN creds.ips = <<>>
        ELSE creds.ips = <<ParseIP(SelectedIP)>>

C15_Witness ==
    /\ creds # NoCred
    /\ container.InternalIP = ""
    /\ container.ExternalIP = "192.168.0.2"
    /\ creds.ips = <<[addr |-> "192.168.0.2"]>>

C15_WitnessNoAddress ==
    /\ creds # NoCred
    /\ container.InternalIP = ""
    /\ container.ExternalIP = ""
    /\ creds.ips = <<>>


\* ----------------------------------------------------------------- C16
\* The successful Update of handler k that came last before position j.
LastUpdateBefore(j, k) ==
    LET us == {i \in 1..(j - 1) : log[i].op = "Update" /\ log[i].h = k /\ log[i].ok}
    IN  IF us = {} THEN 0 ELSE CHOOSE i \in us : \A m \in us : m <= i

\* C16: the rotation delay of a validity period p > 0 is less than p, and
\* the credential a handler holds has not reached its NotAfter when the next
\* cycle hands the handler its replacement. A replacement is handed over no
\* earlier than the clock reading that is its NotBefore.
C16_ReplacedWhileValid ==
    /\ (validityPeriod > 0 /\ rotationDuration # NoDuration) =>
           rotationDuration < validityPeriod
    /\ \A j \in Positions :
         (log[j].op = "Update" /\ LastUpdateBefore(j, log[j].h) # 0) =>
             log[j].cred.notBefore < log[LastUpdateBefore(j, log[j].h)].cred.notAfter


\* ----------------------------------------------------------------- C17
\* The cycles whose fan-out is Update: the generations for the container.
CyclesGenerated ==
    Cardinality({i \in Positions : /\ log[i].op = "generateCreds"
                                   /\ log[i].ok
                                   /\ log[i].guid = ContainerGuid})

\* When a Close has been called, every fan-out before it is whole: each
\* cycle called Update on every handler, with success, and no Update follows.
C17_WholeFanOuts ==
    Len(Closes) > 0 =>
        /\ CountOf("Update") = handlers * CyclesGenerated
        /\ \A i \in Positions : log[i].op = "Update" => log[i].ok
        /\ \A i, j \in Positions :
             (log[i].op = "Close" /\ log[j].op = "Update") => j < i

C17_Step ==
    \* the signal is taken in the select alone, and the timer is not with it
    /\ (signals /\ ~signals') =>
           /\ pc = "select"
           /\ pc' \in {"close", "done"}
           /\ timerAt' = timerAt
           /\ fires' = fires
    \* the timer is taken in the select alone, and the signal is not with it
    /\ (timerAt # NoTimer /\ timerAt' = NoTimer) =>
           /\ pc = "select"
           /\ pc' \in {"regen_update", "done"}
           /\ signals' = signals
    \* a cycle under way goes on to its end, or fails: no Close from there
    /\ pc \in {"generate", "update", "regen_update"} =>
           /\ pc' \in {pc, "update", "select", "done"}
           /\ \A i \in DOMAIN log' : i > Len(log) => log'[i].op # "Close"

\* C17: a stop signal that arrives while a generation or an Update fan-out
\* is under way does not interrupt it: the cycle completes or fails before
\* any Close is called, no Close comes between the Updates of a fan-out, and
\* no step services the timer and the signal together.
C17_NoMidCycleCancellation == [](C17_WholeFanOuts) /\ [][C17_Step]_vars

\* A signal is pending in the middle of a timer-driven fan-out, between
\* the Update of the first handler and that of the second.
C17_Witness ==
    /\ signals
    /\ pc = "regen_update"
    /\ handlers >= 2
    /\ idx = 2


\* ----------------------------------------------------------------- C18
\* Back in the select after a cycle, the timer is not ready: it was armed
\* for a positive delay.
C18_RearmedForLater ==
    (pc # "select" /\ pc' = "select") => (timerAt' # NoTimer /\ timerAt' > now')

\* C18: a stop signal sent to a live Runner is serviced in the end, unless
\* the Runner has returned with an error before: the Runner does not go on
\* servicing timer fires for ever with the signal pending.
C18_SignalEventuallyServiced ==
    /\ signals ~> (~signals \/ pc = "done")
    /\ [][C18_RearmedForLater]_vars

\* The signal has just been taken while the timer was ready too, after a
\* timer fire had been serviced.
C18_Witness ==
    /\ pc = "close"
    /\ ~signals
    /\ TimerFired
    /\ fires >= 1


\* ----------------------------------------------------------------- C19
\* The credential handler k holds: that of its last successful Update.
Held(k) ==
    LET i == LastUpdateBefore(Len(log) + 1, k)
    IN  IF i = 0 THEN NoCred ELSE log[i].cred

\* The Runner has returned the error of the Update of handler k.
UpdateFailedAt(k) ==
    /\ pc = "done"
    /\ result = HandlerError("Update", k)

\* C19: Close is called on the stop-signal path alone, after the final
\* generation. A run that has returned an error has called Close on no
\* handler and has handed out no credential with the empty guid; when the
\* error is that of the Update of handler k, the handlers before k hold the
\* new credential and the handlers from k on the one of the cycle before.
C19_CloseOnlyOnStop ==
    /\ \A j \in Positions :
         log[j].op = "Close" =>
             /\ LastGenBefore(j) # 0
             /\ log[LastGenBefore(j)].guid = ""
             /\ log[j].cred = log[LastGenBefore(j)].cred
    /\ (pc = "done" /\ result # NilError) =>
           /\ Len(Closes) = 0
           /\ \A j \in Handed : log[j].cred.cn = ContainerGuid
    /\ \A k \in 1..handlers :
         UpdateFailedAt(k) =>
             /\ \A h \in 1..(k - 1) : Held(h) = creds
             /\ \A h \in k..handlers :
                  IF creds.serial = 1
                  THEN Held(h) = NoCred
                  ELSE /\ Held(h).serial = creds.serial - 1
                       /\ Held(h).cn = ContainerGuid

C19_Witness ==
    /\ handlers = 3
    /\ UpdateFailedAt(2)
    /\ creds.serial = 2
    /\ Held(1) = creds
    /\ Held(3).serial = 1


\* ----------------------------------------------------------------- C20
\* The goroutine is at a send that has no room: it blocks.
GoBlocked ==
    \/ gpc = "send_err" /\ Len(errChan) >= ChanCap
    \/ gpc = "send_exit" /\ Len(exitStatusChan) >= ChanCap

C20_NeverBlocked ==
    /\ ~GoBlocked
    /\ sends <= 1
    /\ Len(exitStatusChan) + Len(errChan) <= sends

\* C20: perform returns whenever action.Timeout is not zero, and the
\* goroutine it starts never blocks on a send, whether perform has returned
\* or not: it sends one value at most, to channels of capacity one.
C20_PerformReturnsGoroutineFree ==
    /\ [](C20_NeverBlocked)
    /\ (ppc = "start" /\ action.Timeout # 0) ~> (ppc = "returned")

\* perform has returned on the timeout and the goroutine has sent the exit
\* status all the same, and is over.
C20_Witness ==
    /\ ppc = "returned"
    /\ performRet = RunActionTimeoutError
    /\ gpc = "end"
    /\ Len(exitStatusChan) = 1

====
